---- MODULE Spec2Model ----
(***************************************************************************)
(* Model of BestBuyMonitor (src/vscode/bestbuybot.py): the scheduler       *)
(* (is_business_hours, is_intensive_monitoring_window,                     *)
(* get_check_interval), the status classifier (get_button_status), the     *)
(* notification policy (should_notify) and the loop driver (monitor_stock, *)
(* load_page_with_retry, restart_browser, send_notification, cleanup and   *)
(* the __main__ block).                                                    *)
(*                                                                         *)
(* An instant is what datetime.now(self.pst_timezone) returns: a weekday   *)
(* (Monday = 0) and a time of day <<hour, minute, second, microsecond>>,   *)
(* compared the way datetime.time compares, field by field.  The clock     *)
(* reads made inside one call are taken at the same instant.               *)
(***************************************************************************)
EXTENDS Integers, Sequences, FiniteSets, TLC

VARIABLES
    now,            \* the wall clock in the reference timezone
    last_status,    \* self.last_status
    page,           \* what the lookup of the button on the loaded page gives
    call,           \* the call that has just returned: operation, argument, state before, result
    polls,          \* the polls made so far: what the element lookup gave and the flag returned
    all_tuesday,    \* every poll made so far fell on a Tuesday
    pc,             \* where the main program stands
    attempt,        \* load_page_with_retry's attempt
    current_interval, \* monitor_stock's current_interval
    sleep_for,      \* the seconds of the sleep in progress
    check_count,    \* self.check_count
    driver,         \* the browser self.driver refers to: alive, or shut down
    orphans,        \* browsers still alive that self.driver no longer refers to
    tick,           \* what the current tick has done so far
    exit            \* how the loop was left and what cleanup did

loopvars == <<pc, attempt, current_interval, sleep_for, check_count, driver, orphans, tick, exit>>

vars == <<now, last_status, page, call, polls, all_tuesday, pc, attempt, current_interval,
          sleep_for, check_count, driver, orphans, tick, exit>>

----------------------------------------------------------------------------
(* Values *)

None == "None"

Status == {"AVAILABLE", "COMING_SOON", "SOLD_OUT", "UNKNOWN", "ERROR"}

intensive_check_interval == 60

tuesday_check_interval == 3600

default_check_interval == 10800

----------------------------------------------------------------------------
(* The clock *)

Weekdays == 0 .. 6

Hours == 0 .. 23

Minutes == {0, 1, 59}

Seconds == {0, 30}

Microseconds == {0, 1}

TimesOfDay == Hours \X Minutes \X Seconds \X Microseconds

Instants == [weekday : Weekdays, time : TimesOfDay]

\* datetime.time(hour, minute): seconds and microseconds default to 0
time(hour, minute) == <<hour, minute, 0, 0>>

\* a < b on datetime.time values: lexicographic on the four fields
TimeLT(a, b) ==
    \E i \in 1 .. 4 : a[i] < b[i] /\ \A j \in 1 .. (i - 1) : a[j] = b[j]

\* a <= b on datetime.time values
TimeLE(a, b) == a = b \/ TimeLT(a, b)

----------------------------------------------------------------------------
(* Scheduler *)

is_business_hours(t) ==
    LET current_time == t.time
        business_start == time(8, 0)
        business_end == time(18, 0)
    IN  TimeLE(business_start, current_time) /\ TimeLE(current_time, business_end)

\* variant: the closing bound 10:00 is exclusive
is_intensive_monitoring_window_open_end(t) ==
    LET current_weekday == t.weekday
        current_time == t.time
        is_target_day == current_weekday \in {2, 3}
        is_target_time == TimeLE(time(8, 0), current_time) /\ TimeLT(current_time, time(10, 0))
    IN  is_target_day /\ is_target_time

is_intensive_monitoring_window(t) ==
    LET current_weekday == t.weekday
        current_time == t.time
        is_target_day == current_weekday \in {2, 3}
        is_target_time == TimeLE(time(8, 0), current_time) /\ TimeLE(current_time, time(10, 0))
    IN  is_target_day /\ is_target_time

\* variant: the Tuesday rule is tried before the business-hours rule
get_check_interval_tuesday_first(t) ==
    LET current_weekday == t.weekday
    IN  IF current_weekday = 1 THEN tuesday_check_interval
        ELSE IF ~is_business_hours(t) THEN default_check_interval
        ELSE IF is_intensive_monitoring_window(t) THEN intensive_check_interval
        ELSE default_check_interval

\* variant: the Tuesday rule is missing
get_check_interval_no_tuesday(t) ==
    IF ~is_business_hours(t) THEN default_check_interval
    ELSE IF is_intensive_monitoring_window(t) THEN intensive_check_interval
    ELSE default_check_interval

get_check_interval(t) ==
    LET current_weekday == t.weekday
    IN  IF ~is_business_hours(t) THEN default_check_interval
        ELSE IF is_intensive_monitoring_window(t) THEN intensive_check_interval
        ELSE IF current_weekday = 1 THEN tuesday_check_interval
        ELSE default_check_interval

----------------------------------------------------------------------------
(* Notification policy *)

\* variant: the intensive-window rule does not ask for a change of status
should_notify_intensive_any(last, current_status, t) ==
    IF last = None
    THEN [ret |-> FALSE, last_status |-> current_status]
    ELSE LET current_weekday == t.weekday
             should_send ==
                 IF current_status = "AVAILABLE" THEN TRUE
                 ELSE IF current_weekday = 1 /\ last = "SOLD_OUT"
                         /\ current_status = "COMING_SOON" THEN TRUE
                 ELSE IF is_intensive_monitoring_window(t) THEN TRUE
                 ELSE IF last # current_status
                         /\ current_status \in {"COMING_SOON", "SOLD_OUT"} THEN TRUE
                 ELSE FALSE
         IN  [ret |-> should_send, last_status |-> current_status]

\* variant: the significant-change rule (the last elif) is missing
should_notify_no_significant(last, current_status, t) ==
    IF last = None
    THEN [ret |-> FALSE, last_status |-> current_status]
    ELSE LET current_weekday == t.weekday
             should_send ==
                 IF current_status = "AVAILABLE" THEN TRUE
                 ELSE IF current_weekday = 1 /\ last = "SOLD_OUT"
                         /\ current_status = "COMING_SOON" THEN TRUE
                 ELSE IF is_intensive_monitoring_window(t) /\ last # current_status THEN TRUE
                 ELSE FALSE
         IN  [ret |-> should_send, last_status |-> current_status]

\* variant: AVAILABLE notifies only when the status has changed
should_notify_available_on_change(last, current_status, t) ==
    IF last = None
    THEN [ret |-> FALSE, last_status |-> current_status]
    ELSE LET current_weekday == t.weekday
             should_send ==
                 IF current_status = "AVAILABLE" /\ last # current_status THEN TRUE
                 ELSE IF current_weekday = 1 /\ last = "SOLD_OUT"
                         /\ current_status = "COMING_SOON" THEN TRUE
                 ELSE IF is_intensive_monitoring_window(t) /\ last # current_status THEN TRUE
                 ELSE IF last # current_status
                         /\ current_status \in {"COMING_SOON", "SOLD_OUT"} THEN TRUE
                 ELSE FALSE
         IN  [ret |-> should_send, last_status |-> current_status]

\* variant: the AVAILABLE rule is tried before the first-observation rule
should_notify_available_first(last, current_status, t) ==
    IF current_status = "AVAILABLE"
    THEN [ret |-> TRUE, last_status |-> current_status]
    ELSE IF last = None
    THEN [ret |-> FALSE, last_status |-> current_status]
    ELSE LET current_weekday == t.weekday
             should_send ==
                 IF current_weekday = 1 /\ last = "SOLD_OUT"
                    /\ current_status = "COMING_SOON" THEN TRUE
                 ELSE IF is_intensive_monitoring_window(t) /\ last # current_status THEN TRUE
                 ELSE IF last # current_status
                         /\ current_status \in {"COMING_SOON", "SOLD_OUT"} THEN TRUE
                 ELSE FALSE
         IN  [ret |-> should_send, last_status |-> current_status]

\* variant: the last rule takes a change into any status as significant
should_notify_any_change(last, current_status, t) ==
    IF last = None
    THEN [ret |-> FALSE, last_status |-> current_status]
    ELSE LET current_weekday == t.weekday
             should_send ==
                 IF current_status = "AVAILABLE" THEN TRUE
                 ELSE IF current_weekday = 1 /\ last = "SOLD_OUT"
                         /\ current_status = "COMING_SOON" THEN TRUE
                 ELSE IF is_intensive_monitoring_window(t) /\ last # current_status THEN TRUE
                 ELSE IF last # current_status THEN TRUE
                 ELSE FALSE
         IN  [ret |-> should_send, last_status |-> current_status]

\* variant: self.last_status is overwritten only when a notification is due
should_notify_store_on_send(last, current_status, t) ==
    IF last = None
    THEN [ret |-> FALSE, last_status |-> current_status]
    ELSE LET current_weekday == t.weekday
             should_send ==
                 IF current_status = "AVAILABLE" THEN TRUE
                 ELSE IF current_weekday = 1 /\ last = "SOLD_OUT"
                         /\ current_status = "COMING_SOON" THEN TRUE
                 ELSE IF is_intensive_monitoring_window(t) /\ last # current_status THEN TRUE
                 ELSE IF last # current_status
                         /\ current_status \in {"COMING_SOON", "SOLD_OUT"} THEN TRUE
                 ELSE FALSE
         IN  [ret |-> should_send,
              last_status |-> IF should_send THEN current_status ELSE last]

\* should_notify(current_status) called at instant t with self.last_status = last:
\* the value returned and the value left in self.last_status
should_notify(last, current_status, t) ==
    IF last = None
    THEN [ret |-> FALSE, last_status |-> current_status]
    ELSE LET current_weekday == t.weekday
             should_send ==
                 IF current_status = "AVAILABLE" THEN TRUE
                 ELSE IF current_weekday = 1 /\ last = "SOLD_OUT"
                         /\ current_status = "COMING_SOON" THEN TRUE
                 ELSE IF is_intensive_monitoring_window(t) /\ last # current_status THEN TRUE
                 ELSE IF last # current_status
                         /\ current_status \in {"COMING_SOON", "SOLD_OUT"} THEN TRUE
                 ELSE FALSE
         IN  [ret |-> should_send, last_status |-> current_status]

----------------------------------------------------------------------------
(* Status classifier *)

\* a text is a sequence of characters, each a string of length one
LowerCase == <<"a", "b", "c", "d", "e", "f", "g", "h", "i", "j", "k", "l", "m",
               "n", "o", "p", "q", "r", "s", "t", "u", "v", "w", "x", "y", "z">>

UpperCase == <<"A", "B", "C", "D", "E", "F", "G", "H", "I", "J", "K", "L", "M",
               "N", "O", "P", "Q", "R", "S", "T", "U", "V", "W", "X", "Y", "Z">>

\* the characters str.strip() removes
Whitespace == {" ", "\t", "\n"}

\* str.upper(): lower-case letters become upper-case, the rest is kept
str_upper(s) ==
    [i \in 1 .. Len(s) |->
        IF \E k \in 1 .. Len(LowerCase) : LowerCase[k] = s[i]
        THEN UpperCase[CHOOSE k \in 1 .. Len(LowerCase) : LowerCase[k] = s[i]]
        ELSE s[i]]

\* str.strip(): the text without its leading and trailing whitespace
str_strip(s) ==
    LET solid == {i \in 1 .. Len(s) : s[i] \notin Whitespace}
    IN  IF solid = {} THEN <<>>
        ELSE LET first == CHOOSE i \in solid : \A j \in solid : i <= j
                 last == CHOOSE i \in solid : \A j \in solid : j <= i
             IN  SubSeq(s, first, last)

\* sub in s, for a text sub that is not empty
str_contains(sub, s) ==
    \E i \in 1 .. (Len(s) - Len(sub) + 1) : SubSeq(s, i, i + Len(sub) - 1) = sub

COMING_SOON_TEXT == <<"C", "O", "M", "I", "N", "G", " ", "S", "O", "O", "N">>

SOLD_OUT_TEXT == <<"S", "O", "L", "D", " ", "O", "U", "T">>

ADD_TO_CART_TEXT == <<"A", "D", "D", " ", "T", "O", " ", "C", "A", "R", "T">>

\* variant: the text is compared without str.upper()
get_button_status_no_upper(lookup) ==
    IF lookup.kind = "timeout" THEN "ERROR"
    ELSE IF lookup.kind = "error" THEN "ERROR"
    ELSE LET button_text == str_strip(lookup.text)
         IN  IF button_text = COMING_SOON_TEXT THEN "COMING_SOON"
             ELSE IF button_text = SOLD_OUT_TEXT THEN "SOLD_OUT"
             ELSE IF str_contains(ADD_TO_CART_TEXT, button_text) THEN "AVAILABLE"
             ELSE "UNKNOWN"

\* variant: the text is compared without str.strip()
get_button_status_no_strip(lookup) ==
    IF lookup.kind = "timeout" THEN "ERROR"
    ELSE IF lookup.kind = "error" THEN "ERROR"
    ELSE LET button_text == str_upper(lookup.text)
         IN  IF button_text = COMING_SOON_TEXT THEN "COMING_SOON"
             ELSE IF button_text = SOLD_OUT_TEXT THEN "SOLD_OUT"
             ELSE IF str_contains(ADD_TO_CART_TEXT, button_text) THEN "AVAILABLE"
             ELSE "UNKNOWN"

\* get_button_status() when the element lookup gives `lookup`: the wait times out
\* (TimeoutException), the lookup or the read of the text raises another exception,
\* or the button is found with text lookup.text
get_button_status(lookup) ==
    IF lookup.kind = "timeout" THEN "ERROR"
    ELSE IF lookup.kind = "error" THEN "ERROR"
    ELSE LET button_text == str_upper(str_strip(lookup.text))
         IN  IF button_text = COMING_SOON_TEXT THEN "COMING_SOON"
             ELSE IF button_text = SOLD_OUT_TEXT THEN "SOLD_OUT"
             ELSE IF str_contains(ADD_TO_CART_TEXT, button_text) THEN "AVAILABLE"
             ELSE "UNKNOWN"

(* What the page can show *)

\* longest run of whitespace put before or after a text
MaxPad == 1

ComingSoon == <<"C", "o", "m", "i", "n", "g", " ", "S", "o", "o", "n">>

SoldOut == <<"S", "o", "l", "d", " ", "O", "u", "t">>

AddToCart == <<"A", "d", "d", " ", "t", "o", " ", "C", "a", "r", "t">>

PreOrder == <<"P", "r", "e", "-", "O", "r", "d", "e", "r">>

str_lower(s) ==
    [i \in 1 .. Len(s) |->
        IF \E k \in 1 .. Len(UpperCase) : UpperCase[k] = s[i]
        THEN LowerCase[CHOOSE k \in 1 .. Len(UpperCase) : UpperCase[k] = s[i]]
        ELSE s[i]]

Labels == {ComingSoon, SoldOut, AddToCart, PreOrder, <<>>}

Casings == UNION {{w, str_upper(w), str_lower(w)} : w \in Labels}

Pads == UNION {[1 .. n -> Whitespace] : n \in 0 .. MaxPad}

Before == Pads \cup {<<"x", " ">>}

After == Pads \cup {<<" ", "N", "o", "w">>}

Texts == {b \o w \o a : b \in Before, w \in Casings, a \in After}

Lookups ==
    {[kind |-> "timeout"], [kind |-> "error"]}
        \cup {[kind |-> "text", text |-> x] : x \in Texts}

----------------------------------------------------------------------------
(* State machine *)

Idle == [op |-> "none"]

max_checks_before_restart == 20

\* a tick that has done nothing yet; last is self.last_status when the tick starts
NewTick(last) ==
    [preventive |-> FALSE, attempts |-> 0, restarts |-> 0, loaded |-> FALSE,
     load_error |-> FALSE, load_failed |-> FALSE,
     quit_raised |-> FALSE, raised |-> FALSE, status |-> None, evals |-> 0, flag |-> FALSE, alerts |-> 0,
     notify_failed |-> FALSE, last |-> last]

\* the monitor as __init__ leaves it, monitor_stock about to start its first tick
Fresh ==
    /\ last_status = None
    /\ call = Idle
    /\ polls = <<>>
    /\ all_tuesday = TRUE
    /\ pc = "tick"
    /\ attempt = 0
    /\ current_interval = 0
    /\ sleep_for = 0
    /\ check_count = 0
    /\ driver = [alive |-> TRUE]
    /\ orphans = 0
    /\ tick = NewTick(None)
    /\ exit = [interrupted |-> FALSE, at |-> "none", cleanup |-> "none"]

Init ==
    /\ now \in Instants
    /\ page = [kind |-> "timeout"]
    /\ Fresh

\* time passes between two calls: one field of the clock changes
ClockAdvance ==
    /\ \/ \E d \in Weekdays : now' = [now EXCEPT !.weekday = d]
       \/ \E h \in Hours : now' = [now EXCEPT !.time[1] = h]
       \/ \E m \in Minutes : now' = [now EXCEPT !.time[2] = m]
       \/ \E s \in Seconds : now' = [now EXCEPT !.time[3] = s]
       \/ \E u \in Microseconds : now' = [now EXCEPT !.time[4] = u]
    /\ now' # now
    /\ call' = Idle
    /\ UNCHANGED <<last_status, page, polls, all_tuesday>>
    /\ UNCHANGED loopvars

IsBusinessHours ==
    /\ call' = [op |-> "is_business_hours", ret |-> is_business_hours(now)]
    /\ UNCHANGED <<now, last_status, page, polls, all_tuesday>>
    /\ UNCHANGED loopvars

IsIntensiveMonitoringWindow ==
    /\ call' = [op |-> "is_intensive_monitoring_window",
                ret |-> is_intensive_monitoring_window(now)]
    /\ UNCHANGED <<now, last_status, page, polls, all_tuesday>>
    /\ UNCHANGED loopvars

GetCheckInterval ==
    /\ call' = [op |-> "get_check_interval", ret |-> get_check_interval(now)]
    /\ UNCHANGED <<now, last_status, page, polls, all_tuesday>>
    /\ UNCHANGED loopvars

ShouldNotify ==
    \E current_status \in Status :
        LET r == should_notify(last_status, current_status, now)
        IN  /\ last_status' = r.last_status
            /\ call' = [op |-> "should_notify", arg |-> current_status,
                        prev |-> last_status, ret |-> r.ret]
            /\ UNCHANGED <<now, page, polls, all_tuesday>>
            /\ UNCHANGED loopvars

GetButtonStatus ==
    /\ call' = [op |-> "get_button_status", arg |-> page, ret |-> get_button_status(page)]
    /\ UNCHANGED <<now, last_status, page, polls, all_tuesday>>
    /\ UNCHANGED loopvars

\* most polls recorded in one run
MaxPolls == 4

PollWeekdays == {1, 2}

PollHours == {9, 12}

PollInstants == {[weekday |-> d, time |-> time(h, 0)] : d \in PollWeekdays, h \in PollHours}

PollLookups ==
    {[kind |-> "timeout"]}
        \cup {[kind |-> "text", text |-> x] : x \in {SoldOut, ComingSoon, AddToCart, PreOrder}}

\* one poll of a loaded page: status = self.get_button_status(), then
\* self.should_notify(status); the next poll comes at some later instant and
\* finds whatever the page shows then
Poll ==
    LET status == get_button_status(page)
        r == should_notify(last_status, status, now)
    IN  /\ Len(polls) < MaxPolls
        /\ last_status' = r.last_status
        /\ call' = [op |-> "should_notify", arg |-> status,
                    prev |-> last_status, ret |-> r.ret]
        /\ polls' = Append(polls, [lookup |-> page, flag |-> r.ret])
        /\ all_tuesday' = (all_tuesday /\ now.weekday = 1)
        /\ now' \in PollInstants
        /\ page' \in PollLookups
        /\ UNCHANGED loopvars

Next ==
    \/ ClockAdvance
    \/ IsBusinessHours
    \/ IsIntensiveMonitoringWindow
    \/ GetCheckInterval
    \/ ShouldNotify

Spec == Init /\ [][Next]_vars

\* the classifier alone, applied to everything the page can show
InitClassify ==
    /\ now = [weekday |-> 0, time |-> time(0, 0)]
    /\ page \in Lookups
    /\ Fresh

SpecClassify == InitClassify /\ [][GetButtonStatus]_vars

\* a fresh monitor polling a page that loads
InitPoll ==
    /\ now \in PollInstants
    /\ page \in PollLookups
    /\ Fresh

SpecPoll == InitPoll /\ [][Poll]_vars

----------------------------------------------------------------------------
(* Loop driver *)

\* load_page_with_retry's max_retries
max_retries == 3

\* highest check_count at which the replacement browser may still fail to start
MaxCheckCount == 21

\* most browsers left alive without self.driver referring to them
MaxOrphans == 1

\* the instants at which the loop reads the clock
LoopInstants ==
    {[weekday |-> 1, time |-> time(12, 0)],
     [weekday |-> 2, time |-> time(9, 0)],
     [weekday |-> 6, time |-> time(20, 0)]}

\* what the page shows while the loop runs
LoopLookups ==
    {[kind |-> "timeout"]}
        \cup {[kind |-> "text", text |-> x] : x \in {SoldOut, AddToCart}}

\* random.uniform(0.9, 1.1), in thousandths
Jitters == {900, 1000, 1100}

\* int(current_interval * jitter)
actual_interval(interval, jitter) == (interval * jitter) \div 1000

\* 5 + random.randint(1, 5) * attempt
backoff_time(r, n) == 5 + r * n

InLoop == pc \notin {"cleanup", "exited"}

\* variant: the threshold is tested with ==
restart_due_exact(n) == n = max_checks_before_restart

\* if self.check_count >= self.max_checks_before_restart
restart_due(n) == n >= max_checks_before_restart

\* variant: the last attempt is told with attempt <= max_retries
load_gives_up_late(n) == ~(n <= max_retries)

\* the else branch of `if attempt < max_retries`
load_gives_up(n) == ~(n < max_retries)

\* variant: a failed load sleeps the scheduled interval
failed_load_sleep_scheduled == current_interval

\* time_module.sleep(self.intensive_check_interval) after a failed load
failed_load_sleep == intensive_check_interval

\* variant: an exception that reaches the loop boundary ends the loop
LoopBoundary_leaves(t) ==
    /\ pc' = "cleanup"
    /\ sleep_for' = 0
    /\ tick' = [t EXCEPT !.raised = TRUE]

\* the except Exception clause of the while loop: sleep the intensive interval
LoopBoundary(t) ==
    /\ pc' = "error_sleep"
    /\ sleep_for' = intensive_check_interval
    /\ tick' = [t EXCEPT !.raised = TRUE]

\* the start of a tick: the interval is computed, the counter incremented and
\* compared with the threshold
TickStart ==
    /\ pc = "tick"
    /\ current_interval' = get_check_interval(now)
    /\ check_count' = check_count + 1
    /\ sleep_for' = 0
    /\ IF restart_due(check_count + 1)
       THEN /\ pc' = "quit_preventive"
            /\ attempt' = 0
            /\ tick' = [NewTick(last_status) EXCEPT !.preventive = TRUE]
       ELSE /\ pc' = "load"
            /\ attempt' = 1
            /\ tick' = NewTick(last_status)
    /\ UNCHANGED <<now, last_status, page, call, polls, all_tuesday, driver, orphans, exit>>

\* restart_browser, first half: self.driver.quit(), an exception of which is
\* swallowed; a quit that raised may have left the browser running
RestartQuit ==
    /\ pc \in {"quit_preventive", "quit_load"}
    /\ \/ /\ driver' = [alive |-> FALSE]
          /\ tick' = [tick EXCEPT !.restarts = @ + 1]
       \/ /\ \E still \in BOOLEAN :
                 /\ still => orphans < MaxOrphans
                 /\ driver' = [alive |-> driver.alive /\ still]
          /\ tick' = [tick EXCEPT !.restarts = @ + 1, !.quit_raised = TRUE]
    /\ pc' = IF pc = "quit_preventive" THEN "setup_preventive" ELSE "setup_load"
    /\ UNCHANGED <<now, last_status, page, call, polls, all_tuesday, attempt,
                   current_interval, sleep_for, check_count, orphans, exit>>

\* restart_browser, second half: sleep(5), self.driver = self._setup_driver(),
\* self.check_count = 0; _setup_driver re-raises what goes wrong, before or after
\* the new browser has started
RestartSetup ==
    /\ pc \in {"setup_preventive", "setup_load"}
    /\ \/ /\ driver' = [alive |-> TRUE]
          /\ orphans' = orphans + (IF driver.alive THEN 1 ELSE 0)
          /\ check_count' = 0
          /\ IF pc = "setup_preventive"
             THEN /\ pc' = "load"
                  /\ attempt' = 1
                  /\ UNCHANGED <<sleep_for, tick>>
             ELSE /\ pc' = "failed_sleep"
                  /\ sleep_for' = failed_load_sleep
                  /\ tick' = [tick EXCEPT !.load_failed = TRUE]
                  /\ UNCHANGED attempt
       \/ /\ check_count < MaxCheckCount
          /\ \E started \in BOOLEAN :
                 /\ started => orphans < MaxOrphans
                 /\ orphans' = orphans + (IF started THEN 1 ELSE 0)
          /\ LoopBoundary(tick)
          /\ UNCHANGED <<driver, check_count, attempt>>
    /\ UNCHANGED <<now, last_status, page, call, polls, all_tuesday, current_interval, exit>>

\* one pass of load_page_with_retry's for loop: self.driver.get(self.url) returns,
\* times out, raises another WebDriverException or raises something else
LoadAttempt ==
    /\ pc = "load"
    /\ LET t == [tick EXCEPT !.attempts = @ + 1]
       IN  \/ /\ driver.alive
              /\ pc' = "classify"
              /\ tick' = [t EXCEPT !.loaded = TRUE]
              /\ UNCHANGED sleep_for
           \/ /\ driver.alive
              /\ ~load_gives_up(attempt)
              /\ \E r \in 1 .. 5 : sleep_for' = backoff_time(r, attempt)
              /\ pc' = "backoff"
              /\ tick' = t
           \/ /\ driver.alive
              /\ load_gives_up(attempt)
              /\ pc' = "quit_load"
              /\ tick' = [t EXCEPT !.load_error = TRUE]
              /\ UNCHANGED sleep_for
           \/ /\ pc' = "quit_load"
              /\ tick' = [t EXCEPT !.load_error = TRUE]
              /\ UNCHANGED sleep_for
           \/ LoopBoundary(t)
    /\ now' \in LoopInstants
    /\ UNCHANGED <<last_status, page, call, polls, all_tuesday, attempt, current_interval,
                   check_count, driver, orphans, exit>>

\* the backoff sleep is over: the for loop goes to the next attempt
Backoff ==
    /\ pc = "backoff"
    /\ attempt' = attempt + 1
    /\ sleep_for' = 0
    /\ pc' = "load"
    /\ now' \in LoopInstants
    /\ UNCHANGED <<last_status, page, call, polls, all_tuesday, current_interval,
                   check_count, driver, orphans, tick, exit>>

\* status = self.get_button_status()
Classify ==
    /\ pc = "classify"
    /\ tick' = [tick EXCEPT !.status = get_button_status(page)]
    /\ pc' = "policy"
    /\ UNCHANGED <<now, last_status, page, call, polls, all_tuesday, attempt,
                   current_interval, sleep_for, check_count, driver, orphans, exit>>

\* variant: the alert is sent whatever should_notify returned
Policy_always_sends ==
    /\ pc = "policy"
    /\ LET r == should_notify(last_status, tick.status, now)
       IN  /\ last_status' = r.last_status
           /\ tick' = [tick EXCEPT !.evals = @ + 1, !.flag = r.ret]
           /\ pc' = "notify"
           /\ UNCHANGED sleep_for
    /\ UNCHANGED <<now, page, call, polls, all_tuesday, attempt, current_interval,
                   check_count, driver, orphans, exit>>

\* if self.should_notify(status): ... else: ..., the else branch going on to the
\* jittered sleep
Policy ==
    /\ pc = "policy"
    /\ LET r == should_notify(last_status, tick.status, now)
       IN  /\ last_status' = r.last_status
           /\ tick' = [tick EXCEPT !.evals = @ + 1, !.flag = r.ret]
           /\ IF r.ret
              THEN pc' = "notify" /\ UNCHANGED sleep_for
              ELSE /\ pc' = "interval_sleep"
                   /\ \E j \in Jitters : sleep_for' = actual_interval(current_interval, j)
    /\ UNCHANGED <<now, page, call, polls, all_tuesday, attempt, current_interval,
                   check_count, driver, orphans, exit>>

\* variant: what the notifier raises is not caught in send_notification
Notify_propagates ==
    /\ pc = "notify"
    /\ \E desktop_ok \in BOOLEAN, sound_ok \in BOOLEAN :
           LET t == [tick EXCEPT !.alerts = @ + 1,
                                 !.notify_failed = ~desktop_ok \/ ~sound_ok]
           IN  IF desktop_ok /\ sound_ok
               THEN /\ tick' = t
                    /\ pc' = "interval_sleep"
                    /\ \E j \in Jitters : sleep_for' = actual_interval(current_interval, j)
               ELSE LoopBoundary(t)
    /\ UNCHANGED <<now, last_status, page, call, polls, all_tuesday, attempt,
                   current_interval, check_count, driver, orphans, exit>>

\* send_notification: the desktop notification and the sound alert each work or
\* raise, what they raise is swallowed; then the jittered sleep
Notify ==
    /\ pc = "notify"
    /\ \E desktop_ok \in BOOLEAN, sound_ok \in BOOLEAN :
           tick' = [tick EXCEPT !.alerts = @ + 1,
                                !.notify_failed = ~desktop_ok \/ ~sound_ok]
    /\ pc' = "interval_sleep"
    /\ \E j \in Jitters : sleep_for' = actual_interval(current_interval, j)
    /\ UNCHANGED <<now, last_status, page, call, polls, all_tuesday, attempt,
                   current_interval, check_count, driver, orphans, exit>>

\* a sleep at the end of a tick is over: the while loop starts the next tick
Wake ==
    /\ pc \in {"interval_sleep", "failed_sleep", "error_sleep"}
    /\ pc' = "tick"
    /\ sleep_for' = 0
    /\ now' \in LoopInstants
    /\ page' \in LoopLookups
    /\ UNCHANGED <<last_status, call, polls, all_tuesday, attempt, current_interval,
                   check_count, driver, orphans, tick, exit>>

\* variant: the __main__ block has no finally clause
Interrupt_no_finally ==
    /\ InLoop
    /\ exit' = [exit EXCEPT !.interrupted = TRUE, !.at = pc]
    /\ pc' = "exited"
    /\ UNCHANGED <<now, last_status, page, call, polls, all_tuesday, attempt,
                   current_interval, sleep_for, check_count, driver, orphans, tick>>

\* KeyboardInterrupt, at any point of the loop: no except Exception clause catches
\* it, the __main__ block does and goes on to its finally clause
Interrupt ==
    /\ InLoop
    /\ exit' = [exit EXCEPT !.interrupted = TRUE, !.at = pc]
    /\ pc' = "cleanup"
    /\ UNCHANGED <<now, last_status, page, call, polls, all_tuesday, attempt,
                   current_interval, sleep_for, check_count, driver, orphans, tick>>

\* the finally clause of the __main__ block: monitor.cleanup(), whose
\* self.driver.quit() works or raises, what it raises being swallowed
Cleanup ==
    /\ pc = "cleanup"
    /\ \/ /\ driver' = [alive |-> FALSE]
          /\ exit' = [exit EXCEPT !.cleanup = "done"]
       \/ /\ \E still \in BOOLEAN : driver' = [alive |-> driver.alive /\ still]
          /\ exit' = [exit EXCEPT !.cleanup = "failed"]
    /\ pc' = "exited"
    /\ UNCHANGED <<now, last_status, page, call, polls, all_tuesday, attempt,
                   current_interval, sleep_for, check_count, orphans, tick>>

NextLoop ==
    \/ TickStart
    \/ RestartQuit
    \/ RestartSetup
    \/ LoadAttempt
    \/ Backoff
    \/ Classify
    \/ Policy
    \/ Notify
    \/ Wake
    \/ Interrupt
    \/ Cleanup

\* the __main__ block: a fresh monitor running monitor_stock
InitLoop ==
    /\ now \in LoopInstants
    /\ page \in LoopLookups
    /\ Fresh

SpecLoop == InitLoop /\ [][NextLoop]_vars

----------------------------------------------------------------------------
(* Properties of the notification policy, under Spec *)

Notified == call.op = "should_notify"

\* the time of day in whole seconds since midnight, and what is left of it
SecondOfDay == (now.time[1] * 60 + now.time[2]) * 60 + now.time[3]

AtClock(h, m) == SecondOfDay = (h * 60 + m) * 60 /\ now.time[4] = 0

BeforeClock(h, m) == SecondOfDay < (h * 60 + m) * 60

AfterClock(h, m) ==
    \/ SecondOfDay > (h * 60 + m) * 60
    \/ SecondOfDay = (h * 60 + m) * 60 /\ now.time[4] > 0

\* Wednesday or Thursday, 08:00 to 10:00 with both ends included
InIntensiveWindow == now.weekday \in {2, 3} /\ ~BeforeClock(8, 0) /\ ~AfterClock(10, 0)

\* 08:00 to 18:00 with both ends included
InBusinessHours == ~BeforeClock(8, 0) /\ ~AfterClock(18, 0)

\* C1, as stated: a call should_notify(s) made when the stored previous status
\* already equals s returns false, for every status s, AVAILABLE included.
C1_RepeatNeverNotifies ==
    (Notified /\ call.prev = call.arg) => call.ret = FALSE

\* C1, amended: a call should_notify(s) made when the stored previous status
\* already equals s returns false for every status s other than AVAILABLE, and
\* returns true for AVAILABLE, at every time.
C1_RepeatNotifiesOnlyAvailable ==
    (Notified /\ call.prev = call.arg) => (call.ret = (call.arg = "AVAILABLE"))

C1_Witness ==
    /\ Notified
    /\ call.prev = "COMING_SOON" /\ call.arg = "COMING_SOON"
    /\ InIntensiveWindow
    /\ call.ret = FALSE

\* C2, as stated: with previous status SOLD_OUT and current status COMING_SOON,
\* should_notify returns true at any time on a Tuesday; on a Wednesday it returns
\* true inside the intensive window and false outside it.
C2_WednesdayOnlyInWindow ==
    (Notified /\ call.prev = "SOLD_OUT" /\ call.arg = "COMING_SOON")
        => /\ now.weekday = 1 => call.ret = TRUE
           /\ now.weekday = 2 => call.ret = InIntensiveWindow

\* C2, amended: with previous status SOLD_OUT and current status COMING_SOON,
\* should_notify returns true at any time on a Tuesday and also at any time on a
\* Wednesday, inside the intensive window or not.
C2_SoldOutToComingSoon ==
    (Notified /\ call.prev = "SOLD_OUT" /\ call.arg = "COMING_SOON"
        /\ now.weekday \in {1, 2})
        => call.ret = TRUE

C2_Witness ==
    /\ Notified
    /\ call.prev = "SOLD_OUT" /\ call.arg = "COMING_SOON"
    /\ now.weekday = 2 /\ AfterClock(10, 0)
    /\ call.ret = TRUE

\* C3: whenever the stored previous status is not None, should_notify(AVAILABLE)
\* returns true, for every previous status (AVAILABLE included), every weekday
\* and every time of day.
C3_AvailableAlwaysNotifies ==
    (Notified /\ call.prev # None /\ call.arg = "AVAILABLE") => call.ret = TRUE

C3_Witness ==
    /\ Notified
    /\ call.prev = "AVAILABLE" /\ call.arg = "AVAILABLE"
    /\ now.weekday = 6 /\ BeforeClock(8, 0)
    /\ call.ret = TRUE

\* C5: the first call to should_notify (last_status is None) returns false for
\* every current status, AVAILABLE included, at every time.
C5_FirstCallNeverNotifies ==
    (Notified /\ call.prev = None) => call.ret = FALSE

C5_Witness ==
    /\ Notified
    /\ call.prev = None /\ call.arg = "AVAILABLE"
    /\ call.ret = FALSE

\* C6: every call should_notify(curr) leaves last_status equal to curr, whatever
\* the previous status, the time and the returned value; no other step changes
\* last_status, and once it is not None it never is None again.
C6_LastStatusIsLatestArgument ==
    [][/\ call'.op = "should_notify" => last_status' = call'.arg
       /\ call'.op # "should_notify" => last_status' = last_status
       /\ last_status # None => last_status' # None]_vars

C6_Witness ==
    /\ Notified
    /\ call.prev = "SOLD_OUT" /\ call.arg = "UNKNOWN"
    /\ call.ret = FALSE
    /\ last_status = "UNKNOWN"

----------------------------------------------------------------------------
(* Properties of the scheduler, under Spec *)

Scheduled == call.op = "get_check_interval"

\* C7: strictly before 08:00 or strictly after 18:00, on every weekday (Tuesday,
\* Wednesday and Thursday included), get_check_interval returns 10800 s; at exactly
\* 08:00 and at exactly 18:00 the time is inside business hours.
C7_OutsideBusinessHours ==
    /\ (Scheduled /\ (BeforeClock(8, 0) \/ AfterClock(18, 0)))
           => call.ret = 10800
    /\ (call.op = "is_business_hours" /\ (AtClock(8, 0) \/ AtClock(18, 0)))
           => call.ret = TRUE

C7_Witness ==
    /\ Scheduled
    /\ now.weekday = 1 /\ AfterClock(18, 0) /\ BeforeClock(18, 1)
    /\ call.ret = 10800

\* C8: inside 08:00-18:00 (ends included) get_check_interval returns 60 s on
\* Wednesday or Thursday from 08:00 to 10:00 (ends included), otherwise 3600 s on
\* Tuesday, otherwise 10800 s; the result is always one of these three values,
\* and it is 60 s exactly when is_intensive_monitoring_window is true.
C8_IntervalPriorityOrder ==
    Scheduled =>
        /\ InBusinessHours =>
               call.ret = IF InIntensiveWindow THEN 60
                          ELSE IF now.weekday = 1 THEN 3600
                          ELSE 10800
        /\ call.ret \in {60, 3600, 10800}
        /\ (call.ret = 60) = is_intensive_monitoring_window(now)

C8_Witness ==
    /\ Scheduled
    /\ now.weekday = 1 /\ AtClock(18, 0)
    /\ call.ret = 3600

\* C9: is_intensive_monitoring_window is true on Wednesday and on Thursday at
\* exactly 08:00, 09:00 and 10:00, false on those days at 07:59 and at 10:01, and
\* false on every other weekday at every time.
C9_IntensiveWindowBounds ==
    call.op = "is_intensive_monitoring_window" =>
        /\ (now.weekday \in {2, 3} /\ (AtClock(8, 0) \/ AtClock(9, 0) \/ AtClock(10, 0)))
               => call.ret = TRUE
        /\ (now.weekday \in {2, 3} /\ (AtClock(7, 59) \/ AtClock(10, 1)))
               => call.ret = FALSE
        /\ now.weekday \notin {2, 3} => call.ret = FALSE

C9_Witness ==
    /\ call.op = "is_intensive_monitoring_window"
    /\ now.weekday = 3 /\ AtClock(10, 0)
    /\ call.ret = TRUE

----------------------------------------------------------------------------
(* Properties of the classifier, under SpecClassify *)

Classified == call.op = "get_button_status"

\* two characters that are the same letter, whatever their case
SameLetter(c, d) ==
    c = d \/ \E k \in 1 .. Len(LowerCase) : {c, d} = {LowerCase[k], UpperCase[k]}

\* a equals b case-insensitively
CaselessEqual(a, b) ==
    Len(a) = Len(b) /\ \A i \in 1 .. Len(a) : SameLetter(a[i], b[i])

\* s contains sub case-insensitively, with any text before and after it
CaselessContains(sub, s) ==
    \E i \in 1 .. (Len(s) - Len(sub) + 1) : CaselessEqual(SubSeq(s, i, i + Len(sub) - 1), sub)

\* s is b, case-insensitively, between two runs of whitespace
PaddedCaselessEqual(s, b) ==
    \E i \in 0 .. Len(s) : \E j \in 0 .. (Len(s) - i) :
        /\ \A k \in 1 .. i : s[k] \in Whitespace
        /\ \A k \in (Len(s) - j + 1) .. Len(s) : s[k] \in Whitespace
        /\ CaselessEqual(SubSeq(s, i + 1, Len(s) - j), b)

\* C10, as stated: first matching rule of: lookup timeout or failure gives ERROR;
\* text equal, case-insensitively, to "coming soon" gives COMING_SOON; equal to
\* "sold out" gives SOLD_OUT; text containing "add to cart" in any case gives
\* AVAILABLE; any other found text gives UNKNOWN.  The result is one of the five
\* statuses.
C10_ClassifyByEquality ==
    Classified =>
        /\ call.ret \in Status
        /\ call.ret =
               IF call.arg.kind # "text" THEN "ERROR"
               ELSE IF CaselessEqual(call.arg.text, ComingSoon) THEN "COMING_SOON"
               ELSE IF CaselessEqual(call.arg.text, SoldOut) THEN "SOLD_OUT"
               ELSE IF CaselessContains(AddToCart, call.arg.text) THEN "AVAILABLE"
               ELSE "UNKNOWN"

\* C10, amended: first matching rule of: lookup timeout or failure gives ERROR;
\* text that, without its leading and trailing whitespace, equals "coming soon"
\* case-insensitively gives COMING_SOON; likewise "sold out" gives SOLD_OUT; text
\* containing "add to cart" in any case gives AVAILABLE; any other found text gives
\* UNKNOWN.  The result is one of the five statuses.
C10_ClassifyStripped ==
    Classified =>
        /\ call.ret \in Status
        /\ call.ret =
               IF call.arg.kind # "text" THEN "ERROR"
               ELSE IF PaddedCaselessEqual(call.arg.text, ComingSoon) THEN "COMING_SOON"
               ELSE IF PaddedCaselessEqual(call.arg.text, SoldOut) THEN "SOLD_OUT"
               ELSE IF CaselessContains(AddToCart, call.arg.text) THEN "AVAILABLE"
               ELSE "UNKNOWN"

C10_Witness ==
    /\ Classified
    /\ call.arg = [kind |-> "text", text |-> str_upper(AddToCart) \o <<" ", "N", "o", "w">>]
    /\ call.ret = "AVAILABLE"

----------------------------------------------------------------------------
(* Properties of a run of polls, under SpecPoll *)

Script == <<SoldOut, ComingSoon, ComingSoon, AddToCart>>

ScriptPolled ==
    /\ Len(polls) = Len(Script)
    /\ all_tuesday
    /\ \A i \in 1 .. Len(Script) : polls[i].lookup = [kind |-> "text", text |-> Script[i]]

\* C4: a fresh monitor that reads the button texts "Sold Out", "Coming Soon",
\* "Coming Soon", "Add to Cart" in that order, every poll on a Tuesday, returns
\* the notification flags false, true, false, true in that order.
C4_TuesdayScript ==
    ScriptPolled => [i \in 1 .. Len(polls) |-> polls[i].flag] = <<FALSE, TRUE, FALSE, TRUE>>

C4_Witness ==
    /\ ScriptPolled
    /\ polls[4].flag = TRUE
    /\ last_status = "AVAILABLE"

----------------------------------------------------------------------------
(* Properties of the loop driver, under SpecLoop *)

\* the tick has reached the sleep that ends it
Sleeping == pc \in {"interval_sleep", "failed_sleep", "error_sleep"}

\* C11: the loop is left only on an interrupt; an exception that reaches the loop
\* boundary (from the page load, the browser restart or re-creation, or anywhere
\* else in the tick) is followed by a sleep of exactly 60 s, after which the
\* next tick starts.
C11_LoopOnlyLeftOnInterrupt ==
    [][/\ (InLoop /\ ~InLoop') => (exit'.interrupted /\ tick' = tick)
       /\ (~tick.raised /\ tick'.raised) => (pc' = "error_sleep" /\ sleep_for' = 60)
       /\ (pc = "error_sleep" /\ InLoop') => pc' = "tick"]_vars

C11_Witness ==
    /\ pc = "tick"
    /\ tick.raised
    /\ tick.restarts = 1
    /\ ~driver.alive
    /\ ~exit.interrupted

\* C13: however the loop is left, the finally clause runs cleanup, which calls
\* quit on the browser the monitor holds, before the process exits; a quit that
\* raises does not keep the process from exiting.
C13_CleanupBeforeExit ==
    [][/\ (InLoop /\ ~InLoop') => (pc' = "cleanup" /\ exit'.cleanup = "none")
       /\ pc = "cleanup" => (pc' = "exited" /\ exit'.cleanup \in {"done", "failed"})
       /\ pc' = "exited" => exit'.cleanup \in {"done", "failed"}]_vars

C13_Witness ==
    /\ pc = "exited"
    /\ exit.interrupted
    /\ exit.at = "setup_load"
    /\ exit.cleanup = "failed"

\* browsers alive at this point: the one the monitor holds, if it is alive, and
\* those it no longer refers to
LiveBrowsers == (IF driver.alive THEN 1 ELSE 0) + orphans

\* C12: at every point at most one browser is alive, also after a restart whose
\* quit call raised and in a tick with a preventive and a failure-triggered
\* restart.
C12_AtMostOneLiveBrowser == LiveBrowsers <= 1

\* the restarts load_page_with_retry asked for in this tick
LoadRestarts == tick.restarts - (IF tick.preventive THEN 1 ELSE 0)

\* C14, as stated: a tick makes at most 3 load attempts, a backoff sleep follows
\* a timeout on attempt 1 or 2 only, a successful load comes with no restart, and
\* a load that gave up (timeout on attempt 3, or a transport error) has made
\* exactly one restart and returned failure, the tick ending in the 60 s sleep of
\* the failed load with the policy not evaluated.
C14_GiveUpReturnsFailure ==
    /\ tick.attempts <= 3
    /\ pc = "backoff" => tick.attempts \in {1, 2}
    /\ tick.loaded => (LoadRestarts = 0 /\ ~tick.load_error)
    /\ (tick.load_error /\ Sleeping)
           => (LoadRestarts = 1 /\ tick.evals = 0 /\ tick.load_failed /\ pc = "failed_sleep")

\* C14, amended: as stated, except that a load that gave up has made exactly one
\* restart and then either returned failure (the restart completed) or let the
\* exception of a failed browser re-creation pass to the loop boundary; in both
\* cases the rest of the tick is skipped.  After a backoff sleep comes the next
\* attempt.
C14_GiveUpRestartsOnce ==
    /\ [](/\ tick.attempts <= 3
          /\ pc = "backoff" => tick.attempts \in {1, 2}
          /\ tick.loaded => (LoadRestarts = 0 /\ ~tick.load_error)
          /\ (tick.load_error /\ Sleeping)
                 => /\ LoadRestarts = 1
                    /\ tick.evals = 0
                    /\ \/ tick.load_failed /\ ~tick.raised /\ pc = "failed_sleep"
                       \/ ~tick.load_failed /\ tick.raised /\ pc = "error_sleep")
    /\ [][(pc = "backoff" /\ InLoop')
              => (pc' = "load" /\ attempt' = attempt + 1 /\ tick' = tick)]_vars

C14_Witness ==
    /\ pc = "error_sleep"
    /\ tick.load_error
    /\ tick.attempts = 3
    /\ tick.restarts = 1
    /\ tick.raised

\* C15, as stated: check_count never exceeds 20, it lies in 0..19 whenever a page
\* load is attempted, and it is 0 once a tick has been through a browser restart.
C15_CountNeverExceedsThreshold ==
    /\ check_count <= 20
    /\ pc \in {"load", "backoff"} => check_count \in 0 .. 19
    /\ (tick.restarts >= 1 /\ Sleeping) => check_count = 0

\* C15, amended: check_count is incremented once at the start of every tick; when
\* the incremented value is 20 or more the browser is restarted before the page
\* is loaded; a restart that completes leaves check_count at 0 and one whose
\* browser re-creation fails leaves it as it was, so that check_count exceeds 20
\* only while restarts keep failing; it lies in 0..19 whenever a page load is
\* attempted.
C15_CountResetByCompletedRestart ==
    /\ [](/\ pc \in {"load", "backoff", "classify", "policy", "notify"}
                 => check_count \in 0 .. 19
          /\ check_count > 20 => (tick.preventive \/ tick.raised))
    /\ [][/\ (pc = "tick" /\ InLoop')
                 => /\ check_count' = check_count + 1
                    /\ (pc' = "quit_preventive") = (check_count' >= 20)
          /\ (pc \in {"setup_preventive", "setup_load"} /\ InLoop')
                 => check_count' = IF tick'.raised THEN check_count ELSE 0
          /\ pc \notin {"tick", "setup_preventive", "setup_load"}
                 => check_count' = check_count]_vars

C15_Witness ==
    /\ pc = "quit_preventive"
    /\ check_count = 21
    /\ tick.preventive

\* C20: whenever a page load is attempted or the button is looked up, the browser
\* the monitor holds has not been shut down, also after a restart that failed to
\* create the replacement browser.
C20_LoadOnLiveBrowser ==
    pc \in {"load", "classify"} => driver.alive

\* C16: a tick in which the desktop notification or the sound alert raised goes on
\* to the jittered sleep of the scheduled interval, not to the sleep of the loop
\* boundary, with last_status already equal to the tick's status; after that
\* sleep the next tick starts.
C16_NotifierFailureSwallowed ==
    /\ []((tick.notify_failed /\ InLoop /\ pc # "tick")
              => /\ pc = "interval_sleep"
                 /\ ~tick.raised
                 /\ (current_interval * 9) \div 10 <= sleep_for
                 /\ sleep_for <= (current_interval * 11) \div 10
                 /\ last_status = tick.status)
    /\ [][(pc = "interval_sleep" /\ InLoop') => pc' = "tick"]_vars

C16_Witness ==
    /\ pc = "interval_sleep"
    /\ tick.notify_failed
    /\ current_interval = 3600
    /\ sleep_for = 3960
    /\ last_status = "AVAILABLE"

\* C17: in a tick the policy is evaluated at most once, only after the page has
\* loaded and the status has been classified, and exactly once in a tick that
\* loaded and reached its sleep; an alert is sent at most once, only after the
\* policy returned true, and in a tick that reached its sleep it has been sent
\* exactly when the page loaded and the policy returned true.
C17_PolicyOncePerLoadedTick ==
    /\ tick.evals <= 1
    /\ tick.alerts <= 1
    /\ tick.evals = 1 => (tick.loaded /\ tick.status \in Status)
    /\ tick.alerts = 1 => (tick.evals = 1 /\ tick.flag)
    /\ Sleeping => /\ (tick.evals = 1) = tick.loaded
                   /\ (tick.alerts = 1) = (tick.loaded /\ tick.flag)

C17_Witness ==
    /\ pc = "interval_sleep"
    /\ tick.loaded
    /\ tick.status = "SOLD_OUT"
    /\ tick.evals = 1
    /\ ~tick.flag
    /\ tick.alerts = 0

\* C19: a tick whose page load gave up (retries exhausted or transport error)
\* ends with last_status as it was when the tick started, no policy evaluation,
\* no alert and a sleep of 60 s whatever the scheduled interval; last_status
\* changes only when a tick that loaded evaluates the policy, so the next
\* successful tick compares with the status of the last successful one.
C19_FailedLoadKeepsLastStatus ==
    /\ []((tick.load_error /\ Sleeping)
              => /\ last_status = tick.last
                 /\ tick.evals = 0
                 /\ tick.alerts = 0
                 /\ sleep_for = 60)
    /\ [][last_status' # last_status
              => (pc = "policy" /\ tick.loaded /\ last_status = tick.last
                  /\ last_status' = tick.status)]_vars

C19_Witness ==
    /\ pc = "failed_sleep"
    /\ tick.load_error
    /\ tick.attempts = 3
    /\ last_status = "SOLD_OUT"
    /\ current_interval = 3600
    /\ sleep_for = 60

----------------------------------------------------------------------------
(* A further property of the notification policy, under Spec *)

\* C18: a call whose current status is not AVAILABLE returns true only if the
\* stored previous status is another status; a call whose current status is
\* UNKNOWN or ERROR returns true only inside the intensive window.
C18_NotifyOnlyOnChange ==
    (Notified /\ call.ret = TRUE)
        => /\ call.arg # "AVAILABLE" => (call.prev # None /\ call.prev # call.arg)
           /\ call.arg \in {"UNKNOWN", "ERROR"} => InIntensiveWindow

C18_Witness ==
    /\ Notified
    /\ call.prev = "SOLD_OUT" /\ call.arg = "ERROR"
    /\ now.weekday = 3 /\ AtClock(10, 0)
    /\ call.ret = TRUE

====
